---------------------------- MODULE Spec2Model ----------------------------
(***************************************************************************)
(* Model of lurchyy/tts: the conversion engine EdgeTTSWithAccents          *)
(* (src/tts.py) and the Gradio handlers that keep the "latest job" slot in *)
(* module globals (src/app.py).                                            *)
(*                                                                         *)
(* All handlers of app.py are coroutines run by one asyncio event loop, so *)
(* the code between two awaits that really suspend is one atomic step.     *)
(* The only suspension points are communicate.save() (tts.py:207) and      *)
(* asyncio.sleep(1) (app.py:159).                                          *)
(*                                                                         *)
(* Time: the code reads the clock only to compare a difference with one    *)
(* second (app.py:160) and to sleep one second (app.py:159), so the model  *)
(* keeps elapsed times instead of time stamps: typing_age is               *)
(* time.time() - last_typing_time and typing_timer.slept is the time the   *)
(* task has been sleeping, both in ticks and both counted up to one second *)
(* (any larger value compares the same).                                   *)
(*                                                                         *)
(* Two specifications:                                                     *)
(*   Spec     the Gradio application (app.py handlers over the globals)    *)
(*   SpecCLI  the command line driver of tts.py calling                    *)
(*            convert_text_to_speech directly                              *)
(***************************************************************************)
EXTENDS Integers, Sequences, FiniteSets, TLC

VARIABLES
    last_text,          \* app.py:13
    last_audio_path,    \* app.py:14
    is_processing,      \* app.py:15
    typing_age,         \* time.time() - last_typing_time (app.py:16), in ticks
    typing_timer,       \* app.py:17  the asyncio task of wait_and_stream
    files,              \* the file system: path -> content
    jobs,               \* the process_text calls suspended in communicate.save,
                        \* each with its local variables
    latest,             \* the most recent submission that wrote the slot: its
                        \* kind ("none", "process_text", "stream"), its text
                        \* and its state, and the temporary path of the most
                        \* recent process_text submission
    change_age,         \* time since the text box last changed, that is since
                        \* the last call of handle_typing (app.py:259-263),
                        \* in ticks
    voice_gender,       \* tts_engine.voice_gender, the gender lookup
    cli,                \* the convert_text_to_speech call of tts.py's driver
    ev                  \* the most recent call, with its arguments and result;
                        \* at is "return" (called and returned), "await"
                        \* (called, suspended) or "resumed" (returned later);
                        \* job holds the local variables of a process_text call

vars == <<last_text, last_audio_path, is_processing, typing_age,
          typing_timer, files, jobs, latest, change_age, voice_gender, cli, ev>>

appVars == <<last_text, last_audio_path, is_processing, typing_age,
             typing_timer, jobs, latest>>

---------------------------------------------------------------------------
(* Bounds of the model                                                     *)

MaxJobs == 2            \* process_text calls that create a temporary file
TicksPerSecond == 2     \* clock resolution
MaxIndex == 3           \* voice_index of the command line: -MaxIndex..MaxIndex

---------------------------------------------------------------------------
(* Constants of the program                                                *)

Delay == 1              \* asyncio.sleep(1) and the >= 1 test, in seconds
ProgressSteps == 100    \* range(100) of the progress loop
ProgressStepCs == 1     \* time.sleep(0.01), in hundredths of a second

DelayTicks == Delay * TicksPerSecond

\* the progress loop blocks the event loop for 100 * 0.01 s
ProgressTicks == ((ProgressSteps * ProgressStepCs) * TicksPerSecond) \div 100

NoGender == ""          \* gender=None (falsy)
NoPath == [dir |-> "", n |-> 0, name |-> ""]    \* None

available_accents ==
    ("American" :> [Male   |-> <<"en-US-ChristopherNeural", "en-US-GuyNeural">>,
                    Female |-> <<"en-US-JennyNeural", "en-US-AriaNeural">>]) @@
    ("British" :> [Male   |-> <<"en-GB-RyanNeural", "en-GB-ThomasNeural">>,
                   Female |-> <<"en-GB-SoniaNeural", "en-GB-LibbyNeural">>]) @@
    ("Indian" :> [Male   |-> <<"en-IN-PrabhatNeural">>,
                  Female |-> <<"en-IN-NeerjaNeural">>]) @@
    ("Australian" :> [Male   |-> <<"en-AU-WilliamNeural">>,
                      Female |-> <<"en-AU-NatashaNeural", "en-AU-AnnetteNeural">>]) @@
    ("Irish" :> [Male   |-> <<"en-IE-ConnorNeural">>,
                 Female |-> <<"en-IE-EmilyNeural">>]) @@
    ("Canadian" :> [Male   |-> <<"en-CA-LiamNeural">>,
                    Female |-> <<"en-CA-ClaraNeural">>]) @@
    ("South African" :> [Male   |-> <<"en-ZA-LukeNeural">>,
                         Female |-> <<"en-ZA-LeahNeural">>])

\* dict iteration order of one accent's genders (tts.py:183)
GenderOrder == <<"Male", "Female">>

\* dict iteration order of available_accents (tts.py:31-61)
AccentOrder ==
    <<"American", "British", "Indian", "Australian", "Irish", "Canadian",
      "South African">>

\* the characters of the strings the gender lookup is computed from
Chars ==
    ("Male" :>
        <<"M", "a", "l", "e">>) @@
    ("Female" :>
        <<"F", "e", "m", "a", "l", "e">>) @@
    ("en-US-ChristopherNeural" :>
        <<"e", "n", "-", "U", "S", "-", "C", "h", "r", "i", "s", "t", "o", "p", "h", "e", "r", "N", "e", "u", "r", "a", "l">>) @@
    ("en-US-GuyNeural" :>
        <<"e", "n", "-", "U", "S", "-", "G", "u", "y", "N", "e", "u", "r", "a", "l">>) @@
    ("en-US-JennyNeural" :>
        <<"e", "n", "-", "U", "S", "-", "J", "e", "n", "n", "y", "N", "e", "u", "r", "a", "l">>) @@
    ("en-US-AriaNeural" :>
        <<"e", "n", "-", "U", "S", "-", "A", "r", "i", "a", "N", "e", "u", "r", "a", "l">>) @@
    ("en-GB-RyanNeural" :>
        <<"e", "n", "-", "G", "B", "-", "R", "y", "a", "n", "N", "e", "u", "r", "a", "l">>) @@
    ("en-GB-ThomasNeural" :>
        <<"e", "n", "-", "G", "B", "-", "T", "h", "o", "m", "a", "s", "N", "e", "u", "r", "a", "l">>) @@
    ("en-GB-SoniaNeural" :>
        <<"e", "n", "-", "G", "B", "-", "S", "o", "n", "i", "a", "N", "e", "u", "r", "a", "l">>) @@
    ("en-GB-LibbyNeural" :>
        <<"e", "n", "-", "G", "B", "-", "L", "i", "b", "b", "y", "N", "e", "u", "r", "a", "l">>) @@
    ("en-IN-PrabhatNeural" :>
        <<"e", "n", "-", "I", "N", "-", "P", "r", "a", "b", "h", "a", "t", "N", "e", "u", "r", "a", "l">>) @@
    ("en-IN-NeerjaNeural" :>
        <<"e", "n", "-", "I", "N", "-", "N", "e", "e", "r", "j", "a", "N", "e", "u", "r", "a", "l">>) @@
    ("en-AU-WilliamNeural" :>
        <<"e", "n", "-", "A", "U", "-", "W", "i", "l", "l", "i", "a", "m", "N", "e", "u", "r", "a", "l">>) @@
    ("en-AU-NatashaNeural" :>
        <<"e", "n", "-", "A", "U", "-", "N", "a", "t", "a", "s", "h", "a", "N", "e", "u", "r", "a", "l">>) @@
    ("en-AU-AnnetteNeural" :>
        <<"e", "n", "-", "A", "U", "-", "A", "n", "n", "e", "t", "t", "e", "N", "e", "u", "r", "a", "l">>) @@
    ("en-IE-ConnorNeural" :>
        <<"e", "n", "-", "I", "E", "-", "C", "o", "n", "n", "o", "r", "N", "e", "u", "r", "a", "l">>) @@
    ("en-IE-EmilyNeural" :>
        <<"e", "n", "-", "I", "E", "-", "E", "m", "i", "l", "y", "N", "e", "u", "r", "a", "l">>) @@
    ("en-CA-LiamNeural" :>
        <<"e", "n", "-", "C", "A", "-", "L", "i", "a", "m", "N", "e", "u", "r", "a", "l">>) @@
    ("en-CA-ClaraNeural" :>
        <<"e", "n", "-", "C", "A", "-", "C", "l", "a", "r", "a", "N", "e", "u", "r", "a", "l">>) @@
    ("en-ZA-LukeNeural" :>
        <<"e", "n", "-", "Z", "A", "-", "L", "u", "k", "e", "N", "e", "u", "r", "a", "l">>) @@
    ("en-ZA-LeahNeural" :>
        <<"e", "n", "-", "Z", "A", "-", "L", "e", "a", "h", "N", "e", "u", "r", "a", "l">>)

\* the name fragments of tts.py:64-66
MaleTokens ==
    {<<"G", "u", "y">>,
     <<"C", "h", "r", "i", "s", "t", "o", "p", "h", "e", "r">>,
     <<"R", "y", "a", "n">>,
     <<"T", "h", "o", "m", "a", "s">>,
     <<"P", "r", "a", "b", "h", "a", "t">>,
     <<"W", "i", "l", "l", "i", "a", "m">>,
     <<"C", "o", "n", "n", "o", "r">>,
     <<"L", "i", "a", "m">>,
     <<"L", "u", "k", "e">>}

\* sub in s of Python, on character sequences
Contains(s, sub) ==
    \E k \in 0..(Len(s) - Len(sub)) : SubSeq(s, k + 1, k + Len(sub)) = sub

\* the value expression of the comprehension, tts.py:64-66
InferGender(voice) ==
    IF \E token \in MaleTokens : Contains(Chars[voice], token)
    THEN "Male" ELSE "Female"

\* tts.py:63-69: for accent, voices in available_accents.items() binds voices
\* to the dict of one accent, and for voice in voices iterates its keys
BuildVoiceGender ==
    [voice \in UNION {DOMAIN available_accents[accent] :
                          accent \in DOMAIN available_accents}
        |-> InferGender(voice)]

\* voice_gender.get(voice_name, "Unknown"), tts.py:141
GenderGet(voice_name) ==
    IF voice_name \in DOMAIN voice_gender THEN voice_gender[voice_name]
    ELSE "Unknown"

\* every voice identifier of the catalog
CatalogVoices ==
    UNION {{available_accents[accent][gender][i] :
               i \in 1..Len(available_accents[accent][gender])} :
           accent \in DOMAIN available_accents, gender \in {"Male", "Female"}}

\* the attributes an EdgeTTSWithAccents instance has
EngineAttrs ==
    {"output_dir", "edge_tts", "available_accents", "voice_gender",
     "_ensure_edge_tts", "_ensure_player", "get_available_voices",
     "list_available_accents", "list_all_available_voices",
     "convert_text_to_speech", "play_audio", "replay_audio"}

\* f"output_{accent.lower().replace(' ', '_')}.mp3" for the catalog's accents
OutputName ==
    ("American" :> "output_american.mp3") @@
    ("British" :> "output_british.mp3") @@
    ("Indian" :> "output_indian.mp3") @@
    ("Australian" :> "output_australian.mp3") @@
    ("Irish" :> "output_irish.mp3") @@
    ("Canadian" :> "output_canadian.mp3") @@
    ("South African" :> "output_south_african.mp3")

\* the returned messages
MsgEnterText == "Please enter some text to convert to speech."
MsgGenerated == "Speech generated successfully!"
MsgGenerateFailed == "Failed to generate speech. Please try again."
MsgStreamed == "Speech streamed successfully!"
MsgNoReplay == "No previous text to replay."
MsgReplayed == "Last audio replayed successfully!"
MsgTyping == "Typing detected..."
MsgResumed == "Typing resumed..."
MsgNoFile == "No audio file available to download"
MsgDownload == "Audio file ready for download"
MsgKeyError == "An error occurred: KeyError"
MsgValueError == "An error occurred: ValueError"
MsgAttributeError == "An error occurred: AttributeError"

---------------------------------------------------------------------------
(* Inputs                                                                  *)

\* texts are sequences of characters; " " is the whitespace character
Texts == { <<>>, <<" ", " ">>, <<"a">>, <<" ", "b">> }

\* the selection of the page: the second voice of American/Female and a
\* voice that is stale with respect to the accent
InputAccents == {"American"}
InputGenders == {"Female"}
InputVoices == {"en-US-AriaNeural", "en-GB-RyanNeural"}
Selections == InputAccents \X InputGenders \X InputVoices
FirstSelection == CHOOSE sel \in Selections : sel[3] = "en-US-AriaNeural"

\* --accent is free text, --gender is Male, Female or absent, --voice any int
CliAccents == {"American", "Indian", "Martian"}
CliGenders == {"Male", "Female", NoGender}
CliIndexes == (0 - MaxIndex) .. MaxIndex
CliTexts == { <<"a">> }

---------------------------------------------------------------------------
(* Pure helpers                                                            *)

IsSpace(c) == c = " "

RECURSIVE LStrip(_)
LStrip(s) ==
    IF s = <<>> THEN <<>>
    ELSE IF IsSpace(Head(s)) THEN LStrip(Tail(s)) ELSE s

RECURSIVE RStrip(_)
RStrip(s) ==
    IF s = <<>> THEN <<>>
    ELSE IF IsSpace(s[Len(s)]) THEN RStrip(SubSeq(s, 1, Len(s) - 1)) ELSE s

\* a strip() that removes nothing
StripNothing(s) == s

\* str.strip()
Strip(s) == RStrip(LStrip(s))

\* the calls of a handler taking (text, accent, gender, voice); a text that
\* is rejected comes with one selection, the handler returns before using it
Calls == {c \in Texts \X Selections : Strip(c[1]) # <<>> \/ c[2] = FirstSelection}

\* dict.get(key, [])
DictGet(d, key) == IF key \in DOMAIN d THEN d[key] ELSE <<>>

\* list[i] of Python: [ok, value]; negative i counts from the end
PyIndex(seq, i) ==
    IF i >= 0 /\ i < Len(seq) THEN [ok |-> TRUE, value |-> seq[i + 1]]
    ELSE IF i < 0 /\ i >= 0 - Len(seq)
         THEN [ok |-> TRUE, value |-> seq[Len(seq) + i + 1]]
         ELSE [ok |-> FALSE, value |-> ""]

\* an index() that always answers the first position
ListIndexFirst(seq, v) == 0

\* list.index(v): the 0-based position of the first v, -1 for ValueError
ListIndex(seq, v) ==
    IF \E k \in 1..Len(seq) : seq[k] = v
    THEN (CHOOSE k \in 1..Len(seq) :
              seq[k] = v /\ \A m \in 1..(k - 1) : seq[m] # v) - 1
    ELSE -1

\* the audio the provider produces for (text, voice), and an empty file
Audio(text, voice) == [written |-> TRUE, text |-> text, voice |-> voice]
EmptyFile == [written |-> FALSE, text |-> <<>>, voice |-> ""]

WriteFile(fs, p, c) == [q \in (DOMAIN fs) \cup {p} |-> IF q = p THEN c ELSE fs[q]]

TempFiles(fs) == {p \in DOMAIN fs : p.dir = "tmp"}

\* tempfile.NamedTemporaryFile picks a name that does not exist yet
TempName(fs) == [dir |-> "tmp", n |-> Cardinality(TempFiles(fs)) + 1, name |-> ".mp3"]

---------------------------------------------------------------------------
(* The engine: EdgeTTSWithAccents.convert_text_to_speech up to its await   *)

\* the voices of the accent for the gender, or of every gender in dict order
ConvertVoices(accent, gender) ==
    IF gender # NoGender
    THEN DictGet(available_accents[accent], gender)
    ELSE available_accents[accent][GenderOrder[1]] \o
         available_accents[accent][GenderOrder[2]]

\* tts.py:175-189 for an accent of the catalog:
\* status "False" (return False), "IndexError" (raised) or "ok" with the voice
ConvertResolveKnown(accent, gender, voice_index) ==
    LET voices == ConvertVoices(accent, gender) IN
    IF gender # NoGender /\ voices = <<>>
    THEN [status |-> "False", voice |-> ""]
    ELSE LET index == IF voice_index >= Len(voices) THEN 0 ELSE voice_index
             r == PyIndex(voices, index)
         IN IF r.ok THEN [status |-> "ok", voice |-> r.value]
                    ELSE [status |-> "IndexError", voice |-> ""]

\* tts.py:175-189 without the test of tts.py:170: the lookup raises KeyError
ConvertResolveUnchecked(accent, gender, voice_index) ==
    IF accent \notin DOMAIN available_accents
    THEN [status |-> "KeyError", voice |-> ""]
    ELSE ConvertResolveKnown(accent, gender, voice_index)

\* tts.py:170-189
ConvertResolve(accent, gender, voice_index) ==
    IF accent \notin DOMAIN available_accents
    THEN [status |-> "False", voice |-> ""]
    ELSE ConvertResolveKnown(accent, gender, voice_index)

\* tts.py:191-194
ConvertOutputFile(accent, output_file) ==
    IF output_file = NoPath
    THEN [dir |-> "generated_audio", n |-> 0, name |-> OutputName[accent]]
    ELSE output_file

\* communicate.save(path) returning: the audio on success; on failure the
\* file is left as it was or left truncated
SaveResult(fs, path, text, voice, ok, touched) ==
    IF ok THEN WriteFile(fs, path, Audio(text, voice))
    ELSE IF touched THEN WriteFile(fs, path, EmptyFile) ELSE fs

---------------------------------------------------------------------------
(* Events: the last call or return and what it was given and gave back     *)

NoJob == [text |-> <<>>, voice |-> "", temp_path |-> NoPath, used |-> "",
          output_file |-> NoPath, superseded |-> FALSE]

Ev(op, at, text, accent, gender, voice, index, used, out, path) ==
    [op |-> op, at |-> at, text |-> text, accent |-> accent, gender |-> gender,
     voice |-> voice, index |-> index, used |-> used, out |-> out,
     path |-> path, job |-> NoJob, provider |-> "", rows |-> <<>>]

NoTimer == [state |-> "none", text |-> <<>>, accent |-> "", gender |-> "",
            voice |-> "", slept |-> 0]

\* a task that has returned; its arguments are gone
DoneTimer == [NoTimer EXCEPT !.state = "done"]

\* an elapsed time n ticks later
Later(age, n) == IF age + n >= DelayTicks THEN DelayTicks ELSE age + n

NoCall == [pc |-> "idle", text |-> <<>>, voice |-> "", output_file |-> NoPath]

NoLatest == [kind |-> "none", text |-> <<>>, state |-> "", path |-> NoPath]

Init ==
    /\ last_text = <<>>
    /\ last_audio_path = NoPath
    /\ is_processing = FALSE
    /\ typing_age = DelayTicks
    /\ typing_timer = NoTimer
    /\ files = [p \in {} |-> EmptyFile]
    /\ jobs = {}
    /\ latest = NoLatest
    /\ change_age = DelayTicks
    /\ voice_gender = BuildVoiceGender
    /\ cli = NoCall
    /\ ev = Ev("init", "return", <<>>, "", "", "", 0, "", "", NoPath)

\* the task of the timer after the event loop was blocked by the progress loop
Blocked(timer) ==
    IF timer.state = "sleeping"
    THEN [timer EXCEPT !.slept = Later(timer.slept, ProgressTicks)]
    ELSE timer

\* a newer submission supersedes the jobs that are still synthesizing
Supersede(js) == {[job EXCEPT !.superseded = TRUE] : job \in js}

---------------------------------------------------------------------------
(* app.py: process_text                                                    *)

\* app.py:20-62 up to the await of communicate.save (tts.py:207)
process_text(text, accent, gender, voice) ==
    IF Strip(text) = <<>>
    THEN /\ ev' = Ev("process_text", "return", text, accent, gender, voice,
                     0, "", MsgEnterText, NoPath)
         /\ UNCHANGED <<appVars, files, change_age, cli, voice_gender>>
    ELSE LET temp_path == TempName(files)
             known == accent \in DOMAIN available_accents
                      /\ gender \in DOMAIN available_accents[accent]
             voice_index == IF known
                            THEN ListIndex(available_accents[accent][gender], voice)
                            ELSE -1
             exc == IF ~known THEN MsgKeyError ELSE MsgValueError
             submitted == [kind |-> "process_text", text |-> text,
                           state |-> "raised", path |-> temp_path]
         IN
         /\ Cardinality(TempFiles(files)) < MaxJobs
         /\ last_text' = text
         /\ last_audio_path' = temp_path
         /\ files' = WriteFile(files, temp_path, EmptyFile)
         /\ UNCHANGED <<cli, voice_gender>>
         /\ IF voice_index < 0
            THEN \* KeyError (38) or ValueError (39): except, then finally
                 /\ is_processing' = FALSE
                 /\ jobs' = Supersede(jobs)
                 /\ latest' = submitted
                 /\ typing_age' = 0
                 /\ UNCHANGED <<typing_timer, change_age>>
                 /\ ev' = Ev("process_text", "return", text, accent, gender,
                             voice, voice_index, "", exc, NoPath)
            ELSE LET r == ConvertResolve(accent, gender, voice_index)
                     job == [text |-> text, voice |-> voice,
                             temp_path |-> temp_path, used |-> r.voice,
                             output_file |->
                                 ConvertOutputFile(accent, last_audio_path'),
                             superseded |-> FALSE]
                 IN
                 /\ typing_age' = Later(0, ProgressTicks)
                 /\ change_age' = Later(change_age, ProgressTicks)
                 /\ typing_timer' = Blocked(typing_timer)
                 /\ IF r.status = "ok"
                    THEN /\ is_processing' = TRUE
                         /\ jobs' = Supersede(jobs) \cup {job}
                         /\ latest' = [submitted EXCEPT !.state = "pending"]
                         /\ ev' = [Ev("process_text", "await", text, accent,
                                      gender, voice, voice_index, r.voice, "",
                                      NoPath) EXCEPT !.job = job]
                    ELSE \* convert returned False or raised IndexError
                         /\ is_processing' = FALSE
                         /\ jobs' = Supersede(jobs)
                         /\ latest' = [submitted EXCEPT !.state = "failed"]
                         /\ ev' = Ev("process_text", "return", text, accent,
                                     gender, voice, voice_index, "",
                                     IF r.status = "False" THEN MsgGenerateFailed
                                     ELSE "An error occurred: IndexError",
                                     NoPath)

\* a completion that stores the returning job in the slot
ResumeSlotOfJob(job) == <<job.text, job.temp_path>>

\* the slot after tts.py:207-215 and app.py:54-62: neither global is assigned
ResumeSlot(job) == <<last_text, last_audio_path>>

\* str(output_file) handed to communicate.save (tts.py:207, 211)
SaveTarget(job) == job.output_file

\* tts.py:207-215 and app.py:54-62: communicate.save returns or raises
process_text_resume(job, ok, touched) ==
    /\ job \in jobs
    /\ files' = SaveResult(files, SaveTarget(job), job.text, job.used, ok, touched)
    /\ jobs' = jobs \ {job}
    /\ is_processing' = FALSE
    /\ last_text' = ResumeSlot(job)[1]
    /\ last_audio_path' = ResumeSlot(job)[2]
    /\ latest' = IF latest.kind = "process_text" /\ latest.path = job.temp_path
                 THEN [latest EXCEPT !.state = IF ok THEN "ok" ELSE "failed"]
                 ELSE latest
    /\ ev' = [Ev("process_text", "resumed", job.text, "", "", job.voice,
                 0, job.used,
                 IF ok THEN MsgGenerated ELSE MsgGenerateFailed,
                 IF ok THEN SaveTarget(job) ELSE NoPath)
              EXCEPT !.job = job, !.provider = IF ok THEN "ok" ELSE "failed"]
    /\ UNCHANGED <<typing_age, typing_timer, change_age, cli, voice_gender>>

---------------------------------------------------------------------------
(* app.py: stream_text_with_delay, wait_and_stream, handle_typing          *)

\* getattr(tts_engine, name): the class of tts.py:19-258 defines EngineAttrs
EngineGetattr(name) ==
    IF name \in EngineAttrs THEN "method" ELSE "AttributeError"

\* app.py:76-90 and 116-126: the lookups before the engine is called;
\* exc is the message of the exception raised, index the voice_index
StreamLookup(accent, gender, voice) ==
    LET known == accent \in DOMAIN available_accents
                 /\ gender \in DOMAIN available_accents[accent]
        voice_index == IF known
                       THEN ListIndex(available_accents[accent][gender], voice)
                       ELSE -1
    IN IF ~known THEN [exc |-> MsgKeyError, index |-> voice_index]
       ELSE IF voice_index < 0 THEN [exc |-> MsgValueError, index |-> voice_index]
       ELSE IF EngineGetattr("stream_text_to_speech") = "AttributeError"
            THEN [exc |-> MsgAttributeError, index |-> voice_index]
            ELSE [exc |-> "", index |-> voice_index]

\* app.py:65-100
stream_text_with_delay(text, accent, gender, voice) ==
    /\ IF Strip(text) = <<>>
       THEN /\ ev' = Ev("stream_text_with_delay", "return", text, accent, gender,
                        voice, 0, "", MsgEnterText, NoPath)
            /\ UNCHANGED <<last_text, is_processing, typing_age, typing_timer,
                           change_age,
                           jobs, latest>>
       ELSE LET r == StreamLookup(accent, gender, voice)
                blocked == r.index >= 0
            IN
            /\ last_text' = text
            /\ is_processing' = FALSE
            /\ typing_age' = IF blocked THEN Later(typing_age, ProgressTicks)
                             ELSE typing_age
            /\ change_age' = IF blocked THEN Later(change_age, ProgressTicks)
                             ELSE change_age
            /\ typing_timer' = IF blocked THEN Blocked(typing_timer)
                               ELSE typing_timer
            /\ jobs' = Supersede(jobs)
            /\ latest' = [latest EXCEPT !.kind = "stream", !.text = text,
                           !.state = IF r.exc = "" THEN "ok" ELSE "failed"]
            /\ ev' = Ev("stream_text_with_delay", "return", text, accent, gender,
                        voice, r.index, "",
                        IF r.exc = "" THEN MsgStreamed ELSE r.exc, NoPath)
    /\ UNCHANGED <<last_audio_path, files, cli, voice_gender>>

\* app.py:137-154
handle_typing(text, accent, gender, voice) ==
    IF Strip(text) = <<>>
    THEN /\ ev' = Ev("handle_typing", "return", text, accent, gender, voice,
                     0, "", MsgEnterText, NoPath)
         /\ change_age' = 0
         /\ UNCHANGED <<appVars, files, cli, voice_gender>>
    ELSE /\ typing_age' = 0
         /\ change_age' = 0
         \* typing_timer.cancel() ends a sleeping task; the name is rebound
         /\ typing_timer' = [state |-> "sleeping", text |-> text,
                             accent |-> accent, gender |-> gender,
                             voice |-> voice, slept |-> 0]
         /\ jobs' = Supersede(jobs)
         /\ ev' = Ev("handle_typing", "return", text, accent, gender, voice,
                     0, "", MsgTyping, NoPath)
         /\ UNCHANGED <<last_text, last_audio_path, is_processing, latest,
                        files, cli, voice_gender>>

\* app.py:157-162 after asyncio.sleep(1) has elapsed, with the call of
\* stream_text_with_delay (app.py:65-100) it makes
wait_and_stream ==
    /\ typing_timer.state = "sleeping"
    /\ typing_timer.slept >= DelayTicks
    /\ typing_timer' = DoneTimer
    /\ IF typing_age >= DelayTicks
       THEN LET r == StreamLookup(typing_timer.accent, typing_timer.gender,
                                  typing_timer.voice)
                blocked == r.index >= 0
            IN
            /\ last_text' = typing_timer.text
            /\ is_processing' = FALSE
            /\ typing_age' = IF blocked THEN Later(typing_age, ProgressTicks)
                             ELSE typing_age
            /\ change_age' = IF blocked THEN Later(change_age, ProgressTicks)
                             ELSE change_age
            /\ jobs' = Supersede(jobs)
            /\ latest' = [latest EXCEPT !.kind = "stream",
                           !.text = typing_timer.text,
                           !.state = IF r.exc = "" THEN "ok" ELSE "failed"]
            /\ ev' = Ev("wait_and_stream", "return", typing_timer.text,
                        typing_timer.accent, typing_timer.gender,
                        typing_timer.voice, r.index, "",
                        IF r.exc = "" THEN MsgStreamed ELSE r.exc, NoPath)
       ELSE /\ ev' = Ev("wait_and_stream", "return", typing_timer.text,
                        typing_timer.accent, typing_timer.gender,
                        typing_timer.voice, 0, "", MsgResumed, NoPath)
            /\ UNCHANGED <<last_text, is_processing, typing_age, jobs, latest,
                           change_age>>
    /\ UNCHANGED <<last_audio_path, files, cli, voice_gender>>

---------------------------------------------------------------------------
(* app.py: replay_last_audio, download_audio                               *)

\* app.py:108-134
replay_last_audio(accent, gender, voice) ==
    /\ IF last_text = <<>>
       THEN ev' = Ev("replay_last_audio", "return", last_text, accent, gender,
                     voice, 0, "", MsgNoReplay, NoPath)
       ELSE LET r == StreamLookup(accent, gender, voice) IN
            ev' = Ev("replay_last_audio", "return", last_text, accent, gender,
                     voice, r.index, "",
                     IF r.exc = "" THEN MsgReplayed ELSE r.exc, NoPath)
    /\ UNCHANGED <<appVars, files, change_age, cli, voice_gender>>

\* app.py:165-175
download_audio ==
    /\ IF last_audio_path = NoPath \/ last_audio_path \notin DOMAIN files
       THEN ev' = Ev("download_audio", "return", <<>>, "", "", "", 0, "",
                     MsgNoFile, NoPath)
       ELSE ev' = Ev("download_audio", "return", <<>>, "", "", "", 0, "",
                     MsgDownload, last_audio_path)
    /\ UNCHANGED <<appVars, files, change_age, cli, voice_gender>>

\* one tick of time passes
Tick ==
    /\ typing_age < DelayTicks
       \/ (typing_timer.state = "sleeping" /\ typing_timer.slept < DelayTicks)
       \/ change_age < DelayTicks
    /\ typing_age' = Later(typing_age, 1)
    /\ change_age' = Later(change_age, 1)
    /\ typing_timer' = IF typing_timer.state = "sleeping"
                       THEN [typing_timer EXCEPT !.slept = Later(@, 1)]
                       ELSE typing_timer
    /\ UNCHANGED <<last_text, last_audio_path, is_processing, files, jobs,
                   latest, voice_gender, cli, ev>>

---------------------------------------------------------------------------
(* tts.py: convert_text_to_speech called by main_async                     *)

\* tts.py:168-207 up to the await of communicate.save, output_file=None
convert_text_to_speech(text, accent, gender, voice_index) ==
    LET r == ConvertResolve(accent, gender, voice_index) IN
    /\ cli.pc = "idle"
    /\ IF r.status = "ok"
       THEN /\ cli' = [pc |-> "save", text |-> text, voice |-> r.voice,
                       output_file |-> ConvertOutputFile(accent, NoPath)]
            /\ ev' = Ev("convert_text_to_speech", "await", text, accent, gender,
                        "", voice_index, r.voice, "", NoPath)
       ELSE /\ cli' = NoCall
            /\ ev' = Ev("convert_text_to_speech", "return", text, accent, gender,
                        "", voice_index, "", r.status, NoPath)
    /\ UNCHANGED <<appVars, files, change_age, voice_gender>>

\* tts.py:207-215
convert_resume(ok, touched) ==
    /\ cli.pc = "save"
    /\ files' = SaveResult(files, cli.output_file, cli.text, cli.voice, ok, touched)
    /\ cli' = NoCall
    /\ ev' = Ev("convert_text_to_speech", "resumed", cli.text, "", "", "", 0,
                cli.voice, IF ok THEN "path" ELSE "False",
                IF ok THEN cli.output_file ELSE NoPath)
    /\ UNCHANGED <<appVars, change_age, voice_gender>>

\* the ShortNames the voice service may list (tts.py:110-113)
ServiceVoices == {CatalogVoices, CatalogVoices \ {"en-US-AriaNeural"}, {}}

\* tts.py:130-142: the rows of the detailed table; voice_list is the dict of
\* one accent, so enumerate(voice_list) enumerates its keys
ListRows(voices) ==
    LET entries == [n \in 1..(Len(AccentOrder) * Len(GenderOrder)) |->
                      [accent |-> AccentOrder[((n - 1) \div Len(GenderOrder)) + 1],
                       i |-> (n - 1) % Len(GenderOrder),
                       voice_name |-> GenderOrder[((n - 1) % Len(GenderOrder)) + 1]]]
        voice_details(e) == e.voice_name \in voices
        listed == SelectSeq(entries, voice_details)
    IN  [k \in 1..Len(listed) |->
            <<IF listed[k].i = 0 THEN listed[k].accent ELSE "",
              listed[k].voice_name, GenderGet(listed[k].voice_name)>>]

\* tts.py:115-144 with detailed=True, called by main_async (tts.py:277-278)
list_available_accents(voices) ==
    /\ cli.pc = "idle"
    /\ ev' = [Ev("list_available_accents", "return", <<>>, "", "", "", 0, "",
                 "", NoPath) EXCEPT !.rows = ListRows(voices)]
    /\ UNCHANGED <<appVars, files, change_age, cli, voice_gender>>

---------------------------------------------------------------------------
(* Specifications                                                          *)

Next ==
    \/ \E c \in Calls : process_text(c[1], c[2][1], c[2][2], c[2][3])
    \/ \E job \in jobs, ok \in BOOLEAN, touched \in BOOLEAN :
          process_text_resume(job, ok, touched)
    \/ \E c \in Calls : stream_text_with_delay(c[1], c[2][1], c[2][2], c[2][3])
    \/ \E c \in Calls : handle_typing(c[1], c[2][1], c[2][2], c[2][3])
    \/ wait_and_stream
    \/ \E sel \in Selections : replay_last_audio(sel[1], sel[2], sel[3])
    \/ download_audio
    \/ Tick

Spec == Init /\ [][Next]_vars

NextCLI ==
    \/ \E text \in CliTexts, accent \in CliAccents, gender \in CliGenders,
          voice_index \in CliIndexes :
          convert_text_to_speech(text, accent, gender, voice_index)
    \/ \E ok \in BOOLEAN, touched \in BOOLEAN : convert_resume(ok, touched)
    \/ \E voices \in ServiceVoices : list_available_accents(voices)

SpecCLI == Init /\ [][NextCLI]_vars

---------------------------------------------------------------------------
(* Properties                                                              *)

AllSpace(text) == \A i \in 1..Len(text) : IsSpace(text[i])

\* the job in the latest-job slot ended in success
LatestSucceeded == latest.kind # "none" /\ latest.state = "ok"

\* C1: convert_text_to_speech with a catalog accent and gender and a
\* voice_index outside [0, len(voices)), negative or too large, uses the
\* first voice of that accent/gender and raises nothing.
C1_ClampOutOfRange ==
    (/\ ev.op = "convert_text_to_speech"
     /\ ev.at # "resumed"
     /\ ev.accent \in DOMAIN available_accents
     /\ ev.gender \in DOMAIN available_accents[ev.accent]
     /\ (ev.index < 0 \/ ev.index >= Len(available_accents[ev.accent][ev.gender])))
    => (/\ ev.at = "await"
        /\ ev.used = available_accents[ev.accent][ev.gender][1])

\* C2: a call of process_text, stream_text_with_delay or handle_typing with
\* an empty or whitespace-only text returns the 'please enter some text'
\* message and changes none of last_text, last_audio_path, is_processing,
\* last_typing_time, typing_timer; it starts no job and writes no file.
C2_EmptyTextRejected ==
    [][(/\ ev' # ev
        /\ ev'.op \in {"process_text", "stream_text_with_delay", "handle_typing"}
        /\ ev'.at # "resumed"
        /\ AllSpace(ev'.text))
       => (/\ ev'.out = MsgEnterText
           /\ ev'.at = "return"
           /\ UNCHANGED <<last_text, last_audio_path, is_processing, typing_age,
                          typing_timer, jobs, files, latest>>)]_vars

\* C2 witness: handle_typing rejected a whitespace-only text while a job is
\* in flight, a timer is pending and the slot is filled
C2_Witness ==
    /\ ev.op = "handle_typing"
    /\ ev.text = <<" ", " ">>
    /\ ev.out = MsgEnterText
    /\ last_text # <<>>
    /\ last_audio_path # NoPath
    /\ is_processing
    /\ jobs # {}
    /\ typing_timer.state = "sleeping"

\* C3: when the provider fails, process_text returns the failure message
\* without a path, no output file exists for that job, and download_audio
\* then hands out no path for it.
C3_NoArtifactOnFailure ==
    /\ (ev.op = "process_text" /\ ev.at = "resumed" /\ ev.provider = "failed")
          => (/\ ev.out = MsgGenerateFailed
              /\ ev.path = NoPath
              /\ ev.job.temp_path \notin DOMAIN files)
    /\ (ev.op = "download_audio" /\ latest.kind = "process_text"
          /\ latest.state = "failed") => ev.path = NoPath

\* C4: when the provider succeeds, process_text returns the success message
\* with a path that is not None; it is the temporary path the job recorded at
\* submission and the file there holds the audio for (text, selected voice).
C4_SuccessPathAndContent ==
    (ev.op = "process_text" /\ ev.at = "resumed" /\ ev.provider = "ok")
    => (/\ ev.out = MsgGenerated
        /\ ev.path # NoPath
        /\ ev.path = ev.job.temp_path
        /\ ev.path \in DOMAIN files
        /\ files[ev.path] = Audio(ev.job.text, ev.job.voice))

\* C4 witness: a process_text call returned the path of a written file
C4_Witness ==
    /\ ev.op = "process_text"
    /\ ev.at = "resumed"
    /\ ev.out = MsgGenerated
    /\ ev.path \in DOMAIN files
    /\ files[ev.path].written
    /\ files[ev.path].voice = "en-US-AriaNeural"

\* C5: stream_text_with_delay with a non-empty text and a voice of the
\* selected accent/gender ends with 'Speech streamed successfully!'.
C5_StreamSucceeds ==
    (/\ ev.op \in {"stream_text_with_delay", "wait_and_stream"}
     /\ ev.out # MsgResumed
     /\ ~AllSpace(ev.text)
     /\ ev.accent \in DOMAIN available_accents
     /\ ev.gender \in DOMAIN available_accents[ev.accent]
     /\ ListIndex(available_accents[ev.accent][ev.gender], ev.voice) >= 0)
    => ev.out = MsgStreamed

\* C6: replay_last_audio returns 'No previous text to replay.' unless the job
\* in the latest-job slot ended in success.
C6_ReplayOnlyAfterSuccess ==
    (ev.op = "replay_last_audio" /\ ~LatestSucceeded) => ev.out = MsgNoReplay

\* C7: a replay after a successful job succeeds with the job's text and the
\* voice the job resolved, whatever is selected at replay time.
C7_ReplayUsesJobVoice ==
    (ev.op = "replay_last_audio" /\ LatestSucceeded)
    => (/\ ev.out = MsgReplayed
        /\ ev.text = latest.text
        /\ ev.index >= 0
        /\ \E p \in DOMAIN files :
              /\ p = latest.path
              /\ files[p].voice
                   = PyIndex(available_accents[ev.accent][ev.gender], ev.index).value)

\* C8: the slot holds the last submission: last_text is the text of the most
\* recent submission and last_audio_path the temporary path of the most
\* recent process_text submission, also after an older job completes late.
C8_LastSubmissionWins ==
    /\ last_text = latest.text
    /\ last_audio_path = latest.path

\* C8 witness: job A was synthesizing when job B was submitted and A's
\* provider call completed after B had returned
C8_Witness ==
    /\ ev.op = "process_text" /\ ev.at = "resumed" /\ ev.provider = "ok"
    /\ ev.job.superseded
    /\ latest.kind = "process_text"
    /\ latest.state = "ok"
    /\ latest.path # ev.job.temp_path
    /\ latest.text # ev.job.text
    /\ jobs = {}

\* C9: convert_text_to_speech with an accent that is not in the catalog
\* returns False for every gender and voice_index, leaves no provider call
\* pending and writes no file.
C9_UnknownAccentFails ==
    [][(/\ ev'.op = "convert_text_to_speech"
        /\ ev'.at # "resumed"
        /\ ev'.accent \notin DOMAIN available_accents)
       => (/\ ev'.at = "return"
           /\ ev'.out = "False"
           /\ cli'.pc = "idle"
           /\ files' = files)]_vars

\* C9 witness: the call with accent Martian returned False after an earlier
\* conversion had written a file
C9_Witness ==
    /\ ev.op = "convert_text_to_speech"
    /\ ev.accent = "Martian"
    /\ ev.out = "False"
    /\ \E p \in DOMAIN files : files[p].written

\* C10: a job that was still synthesizing when a newer job was submitted
\* never returns a success result.
C10_SupersededNeverSucceeds ==
    (ev.op = "process_text" /\ ev.at = "resumed" /\ ev.job.superseded)
    => ev.out # MsgGenerated

\* C11: the typing timer begins a synthesis only when the text box has not
\* changed during the Delay before that moment: whenever wait_and_stream
\* goes on to stream, the last text-change event is at least Delay old.
C11_StreamOnlyAfterQuietDelay ==
    [][(/\ typing_timer.state = "sleeping"
        /\ typing_timer'.state = "done"
        /\ ev'.op = "wait_and_stream"
        /\ ev'.out # MsgResumed)
          => change_age >= DelayTicks]_vars

\* C12: voice_gender, built at construction, has an entry for every voice
\* identifier of the catalog, and the entry is the gender the catalog lists
\* the identifier under.
C12_VoiceGenderCoversCatalog ==
    \A accent \in DOMAIN available_accents :
        \A gender \in DOMAIN available_accents[accent] :
            \A i \in 1..Len(available_accents[accent][gender]) :
                LET voice == available_accents[accent][gender][i] IN
                /\ voice \in DOMAIN voice_gender
                /\ voice_gender[voice] = gender

\* C13: is_processing is True exactly while some process_text or
\* stream_text_with_delay call has passed its empty-text check and has not
\* yet returned.
C13_ProcessingTracksInFlight ==
    is_processing <=> (jobs # {})

=========================================================================
